---- MODULE Spec2Model ----
(***************************************************************************)
(* PostgresDAO (dao/index.js) and the server bootstrap (server.js).        *)
(*                                                                         *)
(* The pool is a set of connections, each idle or checked out by one       *)
(* asynchronous flow.  The database keeps, per connection (session), an    *)
(* open-transaction flag and the writes not yet committed; a statement     *)
(* issued on a session without an open transaction is committed at once    *)
(* (autocommit).  Every await of pool.connect() and client.query() is one  *)
(* step that either resolves or rejects; the synchronous code that follows *)
(* an await (catch, finally, return) belongs to the same step.             *)
(***************************************************************************)
EXTENDS Integers, Sequences, FiniteSets, TLC

\* ---------------------------------------------------------------- bounds
PoolMax  == 2   \* largest pool size (config.database.max, scaled down)
MaxCb    == 1   \* CRUD helper calls a transaction callback makes
MaxBatch == 2   \* items of a multiUpdate array
MaxKeys  == 2   \* keys of a data / where mapping
MaxNum   == 2   \* largest limit / offset / column value
MaxRows  == 2   \* rows of a multiInsert array

Callers  == {"c1", "c2"}          \* request flows using the DAO
Booters  == {"loader", "server"}  \* the two flows that call initialize()
Procs    == Booters \cup Callers
Idle     == "idle"
None     == 0
MaxOps   == IF MaxCb > MaxBatch THEN MaxCb ELSE MaxBatch
Writes   == Callers \X (0..(MaxOps - 1))   \* <<caller, index of its statement>>

VARIABLES
    hostAlive,    \* the node process is running
    isConnected,  \* PostgresDAO.isConnected
    owner,        \* pool: connection -> the flow holding it, or Idle
    inTx,         \* database: session has an open transaction
    pending,      \* database: session's uncommitted writes
    table,        \* database: committed (visible) writes
    pc,           \* flow -> the await it is suspended at
    call,         \* flow -> the DAO method it called and its arguments
    idx,          \* flow -> helper calls completed (loop / callback position)
    sconn,        \* flow -> `client` of transaction / multiUpdate / initialize
    hconn,        \* flow -> `client` of runQuery
    origErr,      \* flow -> `error` caught by the scope's catch block
    outcome,      \* flow -> "pending", "ok", or the error its promise rejected with
    log,          \* flow -> statements it issued on its scope connection
    built         \* the statement text and parameter list a CRUD helper built last

\* config.database.max: the pool's connections are 1..max, max read from the
\* environment when the process starts
Conns == DOMAIN owner

\* config.database.connectionTimeoutMillis: how long pool.connect() waits for
\* a connection before it rejects (0 would mean: wait without limit)
ConnectionTimeoutMillis == 2000

daoVars == <<hostAlive, isConnected, owner, inTx, pending, table, pc, call, idx,
             sconn, hconn, origErr, outcome, log>>
vars == <<daoVars, built>>

NoCall == [fn |-> "none", n |-> 0, throws |-> FALSE]

NoStatement == [fn |-> "none", rows |-> <<>>, data |-> <<>>, where |-> <<>>, orderBy |-> "",
                limit |-> 0, offset |-> 0, text |-> <<>>, params |-> <<>>]

\* ------------------------------------------------- pool and database steps
\* The connections pool.connect() may resolve with.  Idle connections whose
\* sessions are in the same state are interchangeable: of each such group the
\* lowest-numbered one stands for all.
IdleConns ==
    {c \in Conns :
        /\ owner[c] = Idle
        /\ \A d \in Conns :
              (d < c /\ owner[d] = Idle) => <<inTx[d], pending[d]>> # <<inTx[c], pending[c]>>}

\* pool.connect() rejecting: with a free connection the attempt to reach the
\* database failed; with none, the wait for one timed out
ConnectRejects_NoTimeout == IdleConns # {}

ConnectRejects == IdleConns # {} \/ ConnectionTimeoutMillis > 0
ConnectError == IF IdleConns # {} THEN "PoolError" ELSE "PoolTimeout"

\* pool.connect() resolving with connection c for flow p
Acquire(p, c) == owner' = [owner EXCEPT ![c] = p]

\* client.release()
Release(c) == owner' = [owner EXCEPT ![c] = Idle]

\* a successful INSERT / UPDATE / DELETE statement w on session c
DbWrite(c, w) ==
    IF inTx[c]
    THEN /\ pending' = [pending EXCEPT ![c] = @ \cup {w}]
         /\ table' = table
    ELSE /\ table' = table \cup {w}
         /\ pending' = pending

\* a successful BEGIN on session c
DbBegin(c) ==
    /\ inTx' = [inTx EXCEPT ![c] = TRUE]
    /\ UNCHANGED <<pending, table>>

\* a successful COMMIT on session c
DbCommit(c) ==
    /\ table' = table \cup pending[c]
    /\ pending' = [pending EXCEPT ![c] = {}]
    /\ inTx' = [inTx EXCEPT ![c] = FALSE]

\* a successful ROLLBACK on session c (also what a failed COMMIT may leave)
DbRollback(c) ==
    /\ pending' = [pending EXCEPT ![c] = {}]
    /\ inTx' = [inTx EXCEPT ![c] = FALSE]
    /\ table' = table

Stmt(s, ok) == [stmt |-> s, ok |-> ok]

\* ------------------------------------------------------------------ Init
Init ==
    /\ hostAlive = TRUE
    /\ isConnected = FALSE
    /\ \E max \in 1..PoolMax :
          /\ owner = [c \in 1..max |-> Idle]
          /\ inTx = [c \in 1..max |-> FALSE]
          /\ pending = [c \in 1..max |-> {}]
    /\ table = {}
    /\ pc = [p \in Procs |-> IF p \in Booters THEN "iconnect" ELSE "idle"]
    /\ call = [p \in Procs |-> IF p \in Booters
                               THEN [fn |-> "initialize", n |-> 0, throws |-> FALSE]
                               ELSE NoCall]
    /\ idx = [p \in Procs |-> 0]
    /\ sconn = [p \in Procs |-> None]
    /\ hconn = [p \in Procs |-> None]
    /\ origErr = [p \in Procs |-> "none"]
    /\ outcome = [p \in Procs |-> "pending"]
    /\ log = [p \in Procs |-> <<>>]
    /\ built = NoStatement

\* ---------------------------------------------------- initialize (boot)
\* What the caller of initialize() does with a rejection: the module-load
\* initializer catches and logs it; server.js awaits it at top level with no
\* handler, so the rejection ends the process.
InitRejected(p, e) ==
    /\ isConnected' = FALSE
    /\ outcome' = [outcome EXCEPT ![p] = e]
    /\ pc' = [pc EXCEPT ![p] = "done"]
    /\ hostAlive' = IF p = "server" THEN FALSE ELSE hostAlive

\* const client = await this.pool.connect()
InitializeConnect(p) ==
    /\ hostAlive /\ p \in Booters /\ pc[p] = "iconnect"
    /\ \/ \E c \in IdleConns :
            /\ Acquire(p, c)
            /\ sconn' = [sconn EXCEPT ![p] = c]
            /\ pc' = [pc EXCEPT ![p] = "iquery"]
            /\ UNCHANGED <<hostAlive, isConnected, outcome>>
       \/ /\ ConnectRejects
          /\ InitRejected(p, ConnectError)
          /\ UNCHANGED <<owner, sconn>>
    /\ UNCHANGED <<built, inTx, pending, table, call, idx, hconn, origErr, log>>

\* await client.query('SELECT NOW() ...'); client.release(); isConnected = true
InitializeQuery(p) ==
    /\ hostAlive /\ p \in Booters /\ pc[p] = "iquery"
    /\ \/ /\ Release(sconn[p])
          /\ sconn' = [sconn EXCEPT ![p] = None]
          /\ isConnected' = TRUE
          /\ outcome' = [outcome EXCEPT ![p] = "ok"]
          /\ pc' = [pc EXCEPT ![p] = IF p = "server" THEN "listening" ELSE "done"]
          /\ UNCHANGED hostAlive
       \/ /\ InitRejected(p, "DriverError")
          /\ UNCHANGED <<owner, sconn>>
    /\ UNCHANGED <<built, inTx, pending, table, call, idx, hconn, origErr, log>>

\* Requests are served once server.js has reached app.listen().
Serving == hostAlive /\ pc["server"] = "listening"

\* ------------------------------------------------------------- runQuery
\* The flow that awaits a CRUD helper resumes: e = "ok" when the helper
\* resolved, else the error it rejected with.  A direct caller of the helper
\* sees that outcome; inside transaction() the callback goes on to its next
\* helper call, throws or returns; inside multiUpdate() the loop goes on.
CallbackError == "CallbackError"

\* multiUpdate: for (const updateItem of updateArray) { await this.updateRows(..) }
\* then await client.query('COMMIT'); a rejection lands in catch (error).
MultiUpdateResume(p, e) ==
    /\ outcome' = outcome
    /\ IF e # "ok"
       THEN /\ origErr' = [origErr EXCEPT ![p] = e]
            /\ pc' = [pc EXCEPT ![p] = "rollback"]
            /\ idx' = idx
       ELSE /\ origErr' = origErr
            /\ idx' = [idx EXCEPT ![p] = @ + 1]
            /\ pc' = [pc EXCEPT ![p] = IF idx[p] + 1 < call[p].n
                                       THEN "hconnect" ELSE "commit"]

\* transaction: const result = await operations(this), where operations makes
\* call[p].n insertRow calls through the DAO it is handed and then throws or
\* returns; then await client.query('COMMIT'), or catch (error).
OperationsAfter(p, done) ==
    IF done < call[p].n THEN "hconnect"
    ELSE IF call[p].throws THEN "rollback" ELSE "commit"

TransactionResume(p, e) ==
    /\ outcome' = outcome
    /\ IF e # "ok"
       THEN /\ origErr' = [origErr EXCEPT ![p] = e]
            /\ pc' = [pc EXCEPT ![p] = "rollback"]
            /\ idx' = idx
       ELSE /\ idx' = [idx EXCEPT ![p] = @ + 1]
            /\ pc' = [pc EXCEPT ![p] = OperationsAfter(p, idx[p] + 1)]
            /\ origErr' = IF OperationsAfter(p, idx[p] + 1) = "rollback"
                          THEN [origErr EXCEPT ![p] = CallbackError]
                          ELSE origErr

\* a helper called directly by a request flow: its promise settles
DirectResume(p, e) ==
    /\ outcome' = [outcome EXCEPT ![p] = e]
    /\ pc' = [pc EXCEPT ![p] = "done"]
    /\ UNCHANGED <<built, idx, origErr>>

HelperResume(p, e) ==
    CASE call[p].fn = "transaction" -> TransactionResume(p, e)
      [] call[p].fn = "multiUpdate" -> MultiUpdateResume(p, e)
      [] OTHER                      -> DirectResume(p, e)

\* insertRow with no keys sends INSERT INTO t () VALUES (), which the database
\* rejects as a syntax error
EmptyInsert(p) == call[p].fn = "insertRow" /\ call[p].n = 0

\* a runQuery that, called inside a scope, runs on the scope's client
RunQueryConnect_OnScopeClient(p) ==
    /\ hostAlive /\ pc[p] = "hconnect"
    /\ \/ /\ sconn[p] # None
          /\ hconn' = [hconn EXCEPT ![p] = sconn[p]]
          /\ owner' = owner
          /\ pc' = [pc EXCEPT ![p] = "hquery"]
          /\ UNCHANGED <<idx, origErr, outcome>>
       \/ /\ sconn[p] = None
          /\ \E c \in IdleConns :
                /\ Acquire(p, c)
                /\ hconn' = [hconn EXCEPT ![p] = c]
                /\ pc' = [pc EXCEPT ![p] = "hquery"]
                /\ UNCHANGED <<idx, origErr, outcome>>
       \/ /\ sconn[p] = None
          /\ ConnectRejects
          /\ HelperResume(p, ConnectError)
          /\ UNCHANGED <<owner, hconn>>
    /\ UNCHANGED <<built, hostAlive, isConnected, inTx, pending, table, call, sconn, log>>

\* runQuery: const client = await this.pool.connect()
RunQueryConnect(p) ==
    /\ hostAlive /\ pc[p] = "hconnect"
    /\ \/ \E c \in IdleConns :
            /\ Acquire(p, c)
            /\ hconn' = [hconn EXCEPT ![p] = c]
            /\ pc' = [pc EXCEPT ![p] = "hquery"]
            /\ UNCHANGED <<idx, origErr, outcome>>
       \/ /\ ConnectRejects
          /\ HelperResume(p, ConnectError)
          /\ UNCHANGED <<owner, hconn>>
    /\ UNCHANGED <<built, hostAlive, isConnected, inTx, pending, table, call, sconn, log>>

\* runQuery: await client.query(text, params) ... finally { client.release() }
RunQueryExec(p) ==
    /\ hostAlive /\ pc[p] = "hquery"
    /\ Release(hconn[p])
    /\ hconn' = [hconn EXCEPT ![p] = None]
    /\ \/ /\ ~EmptyInsert(p)
          /\ DbWrite(hconn[p], <<p, idx[p]>>)
          /\ HelperResume(p, "ok")
       \/ /\ UNCHANGED <<pending, table>>
          /\ HelperResume(p, "DriverError")
    /\ UNCHANGED <<built, hostAlive, isConnected, inTx, call, sconn, log>>

\* ------------------------------------------------- insertRow, deleteRows
\* Of a helper's data / where mapping a request flow fixes the number of keys:
\* none or one (the statement text itself is built by the builders below).
KeyCounts == {0, 1}

\* insertRow(tableName, data): builds the statement from Object.keys(data),
\* whatever their number, and awaits runQuery
insertRow(p, keys) ==
    /\ Serving /\ pc[p] = "idle"
    /\ call' = [call EXCEPT ![p] = [fn |-> "insertRow", n |-> keys, throws |-> FALSE]]
    /\ pc' = [pc EXCEPT ![p] = "hconnect"]
    /\ UNCHANGED <<built, hostAlive, isConnected, owner, inTx, pending, table, idx,
                   sconn, hconn, origErr, outcome, log>>

deleteRows_NoGuard(p, keys) ==
    /\ Serving /\ pc[p] = "idle"
    /\ call' = [call EXCEPT ![p] = [fn |-> "deleteRows", n |-> keys, throws |-> FALSE]]
    /\ pc' = [pc EXCEPT ![p] = "hconnect"]
    /\ UNCHANGED <<built, hostAlive, isConnected, owner, inTx, pending, table, idx,
                   sconn, hconn, origErr, outcome, log>>

\* deleteRows(tableName, where): throws when Object.keys(where).length === 0,
\* else builds the statement and awaits runQuery
deleteRows(p, keys) ==
    /\ Serving /\ pc[p] = "idle"
    /\ call' = [call EXCEPT ![p] = [fn |-> "deleteRows", n |-> keys, throws |-> FALSE]]
    /\ IF keys = 0
       THEN /\ pc' = [pc EXCEPT ![p] = "done"]
            /\ outcome' = [outcome EXCEPT ![p] = "ValidationError"]
       ELSE /\ pc' = [pc EXCEPT ![p] = "hconnect"]
            /\ outcome' = outcome
    /\ UNCHANGED <<built, hostAlive, isConnected, owner, inTx, pending, table, idx,
                   sconn, hconn, origErr, log>>

\* ---------------------------------------------------------- transaction
\* transaction(operations): const client = await this.pool.connect()
transaction(p, n, throws) ==
    /\ Serving /\ pc[p] = "idle"
    /\ call' = [call EXCEPT ![p] = [fn |-> "transaction", n |-> n, throws |-> throws]]
    /\ pc' = [pc EXCEPT ![p] = "connect"]
    /\ UNCHANGED <<built, hostAlive, isConnected, owner, inTx, pending, table, idx,
                   sconn, hconn, origErr, outcome, log>>

\* pool.connect() settles; a rejection is outside the try block
TransactionConnect(p) ==
    /\ hostAlive /\ pc[p] = "connect" /\ call[p].fn = "transaction"
    /\ \/ \E c \in IdleConns :
            /\ Acquire(p, c)
            /\ sconn' = [sconn EXCEPT ![p] = c]
            /\ pc' = [pc EXCEPT ![p] = "begin"]
            /\ outcome' = outcome
       \/ /\ ConnectRejects
          /\ outcome' = [outcome EXCEPT ![p] = ConnectError]
          /\ pc' = [pc EXCEPT ![p] = "done"]
          /\ UNCHANGED <<owner, sconn>>
    /\ UNCHANGED <<built, hostAlive, isConnected, inTx, pending, table, call, idx,
                   hconn, origErr, log>>

\* await client.query('BEGIN'); then operations(this) runs to its first await
TransactionBegin(p) ==
    /\ hostAlive /\ pc[p] = "begin" /\ call[p].fn = "transaction"
    /\ \/ /\ DbBegin(sconn[p])
          /\ log' = [log EXCEPT ![p] = Append(@, Stmt("BEGIN", TRUE))]
          /\ pc' = [pc EXCEPT ![p] = OperationsAfter(p, 0)]
          /\ origErr' = IF OperationsAfter(p, 0) = "rollback"
                        THEN [origErr EXCEPT ![p] = CallbackError]
                        ELSE origErr
       \/ /\ UNCHANGED <<inTx, pending, table>>
          /\ log' = [log EXCEPT ![p] = Append(@, Stmt("BEGIN", FALSE))]
          /\ pc' = [pc EXCEPT ![p] = "rollback"]
          /\ origErr' = [origErr EXCEPT ![p] = "BeginError"]
    /\ UNCHANGED <<built, hostAlive, isConnected, owner, call, idx, sconn, hconn, outcome>>

\* a COMMIT whose failure rejects the call at once, with no catch block
TransactionCommit_RejectWithoutRollback(p) ==
    /\ hostAlive /\ pc[p] = "commit" /\ call[p].fn = "transaction"
    /\ \/ /\ DbCommit(sconn[p])
          /\ log' = [log EXCEPT ![p] = Append(@, Stmt("COMMIT", TRUE))]
          /\ outcome' = [outcome EXCEPT ![p] = "ok"]
          /\ origErr' = origErr
       \/ /\ UNCHANGED <<inTx, pending, table>>
          /\ log' = [log EXCEPT ![p] = Append(@, Stmt("COMMIT", FALSE))]
          /\ outcome' = [outcome EXCEPT ![p] = "CommitError"]
          /\ origErr' = [origErr EXCEPT ![p] = "CommitError"]
    /\ Release(sconn[p])
    /\ sconn' = [sconn EXCEPT ![p] = None]
    /\ pc' = [pc EXCEPT ![p] = "done"]
    /\ UNCHANGED <<built, hostAlive, isConnected, call, idx, hconn>>

\* await client.query('COMMIT'); return result  (finally: client.release()),
\* or COMMIT rejects and control enters catch (error)
TransactionCommit(p) ==
    /\ hostAlive /\ pc[p] = "commit" /\ call[p].fn = "transaction"
    /\ \/ /\ DbCommit(sconn[p])
          /\ log' = [log EXCEPT ![p] = Append(@, Stmt("COMMIT", TRUE))]
          /\ Release(sconn[p])
          /\ sconn' = [sconn EXCEPT ![p] = None]
          /\ outcome' = [outcome EXCEPT ![p] = "ok"]
          /\ pc' = [pc EXCEPT ![p] = "done"]
          /\ origErr' = origErr
       \/ /\ \/ UNCHANGED <<inTx, pending, table>>
             \/ inTx[sconn[p]] /\ DbRollback(sconn[p])
          /\ log' = [log EXCEPT ![p] = Append(@, Stmt("COMMIT", FALSE))]
          /\ origErr' = [origErr EXCEPT ![p] = "CommitError"]
          /\ pc' = [pc EXCEPT ![p] = "rollback"]
          /\ UNCHANGED <<owner, sconn, outcome>>
    /\ UNCHANGED <<built, hostAlive, isConnected, call, idx, hconn>>

\* a catch block that rethrows without issuing ROLLBACK
TransactionRollback_NoStatement(p) ==
    /\ hostAlive /\ pc[p] = "rollback" /\ call[p].fn = "transaction"
    /\ outcome' = [outcome EXCEPT ![p] = origErr[p]]
    /\ Release(sconn[p])
    /\ sconn' = [sconn EXCEPT ![p] = None]
    /\ pc' = [pc EXCEPT ![p] = "done"]
    /\ UNCHANGED <<built, hostAlive, isConnected, inTx, pending, table, call, idx,
                   hconn, origErr, log>>

\* catch (error) { await client.query('ROLLBACK'); throw error }
\* finally { client.release() }
TransactionRollback(p) ==
    /\ hostAlive /\ pc[p] = "rollback" /\ call[p].fn = "transaction"
    /\ \/ /\ DbRollback(sconn[p])
          /\ log' = [log EXCEPT ![p] = Append(@, Stmt("ROLLBACK", TRUE))]
          /\ outcome' = [outcome EXCEPT ![p] = origErr[p]]
       \/ /\ UNCHANGED <<inTx, pending, table>>
          /\ log' = [log EXCEPT ![p] = Append(@, Stmt("ROLLBACK", FALSE))]
          /\ outcome' = [outcome EXCEPT ![p] = "RollbackError"]
    /\ Release(sconn[p])
    /\ sconn' = [sconn EXCEPT ![p] = None]
    /\ pc' = [pc EXCEPT ![p] = "done"]
    /\ UNCHANGED <<built, hostAlive, isConnected, call, idx, hconn, origErr>>

\* ---------------------------------------------------------- multiUpdate
\* multiUpdate(tableName, updateArray): throws on an empty array, else
\* const client = await this.pool.connect()
multiUpdate(p, len) ==
    /\ Serving /\ pc[p] = "idle"
    /\ call' = [call EXCEPT ![p] = [fn |-> "multiUpdate", n |-> len, throws |-> FALSE]]
    /\ IF len = 0
       THEN /\ pc' = [pc EXCEPT ![p] = "done"]
            /\ outcome' = [outcome EXCEPT ![p] = "ValidationError"]
       ELSE /\ pc' = [pc EXCEPT ![p] = "connect"]
            /\ outcome' = outcome
    /\ UNCHANGED <<built, hostAlive, isConnected, owner, inTx, pending, table, idx,
                   sconn, hconn, origErr, log>>

MultiUpdateConnect(p) ==
    /\ hostAlive /\ pc[p] = "connect" /\ call[p].fn = "multiUpdate"
    /\ \/ \E c \in IdleConns :
            /\ Acquire(p, c)
            /\ sconn' = [sconn EXCEPT ![p] = c]
            /\ pc' = [pc EXCEPT ![p] = "begin"]
            /\ outcome' = outcome
       \/ /\ ConnectRejects
          /\ outcome' = [outcome EXCEPT ![p] = ConnectError]
          /\ pc' = [pc EXCEPT ![p] = "done"]
          /\ UNCHANGED <<owner, sconn>>
    /\ UNCHANGED <<built, hostAlive, isConnected, inTx, pending, table, call, idx,
                   hconn, origErr, log>>

\* await client.query('BEGIN'); the loop then awaits its first updateRows
MultiUpdateBegin(p) ==
    /\ hostAlive /\ pc[p] = "begin" /\ call[p].fn = "multiUpdate"
    /\ \/ /\ DbBegin(sconn[p])
          /\ log' = [log EXCEPT ![p] = Append(@, Stmt("BEGIN", TRUE))]
          /\ pc' = [pc EXCEPT ![p] = "hconnect"]
          /\ origErr' = origErr
       \/ /\ UNCHANGED <<inTx, pending, table>>
          /\ log' = [log EXCEPT ![p] = Append(@, Stmt("BEGIN", FALSE))]
          /\ pc' = [pc EXCEPT ![p] = "rollback"]
          /\ origErr' = [origErr EXCEPT ![p] = "BeginError"]
    /\ UNCHANGED <<built, hostAlive, isConnected, owner, call, idx, sconn, hconn, outcome>>

MultiUpdateCommit(p) ==
    /\ hostAlive /\ pc[p] = "commit" /\ call[p].fn = "multiUpdate"
    /\ \/ /\ DbCommit(sconn[p])
          /\ log' = [log EXCEPT ![p] = Append(@, Stmt("COMMIT", TRUE))]
          /\ Release(sconn[p])
          /\ sconn' = [sconn EXCEPT ![p] = None]
          /\ outcome' = [outcome EXCEPT ![p] = "ok"]
          /\ pc' = [pc EXCEPT ![p] = "done"]
          /\ origErr' = origErr
       \/ /\ \/ UNCHANGED <<inTx, pending, table>>
             \/ inTx[sconn[p]] /\ DbRollback(sconn[p])
          /\ log' = [log EXCEPT ![p] = Append(@, Stmt("COMMIT", FALSE))]
          /\ origErr' = [origErr EXCEPT ![p] = "CommitError"]
          /\ pc' = [pc EXCEPT ![p] = "rollback"]
          /\ UNCHANGED <<owner, sconn, outcome>>
    /\ UNCHANGED <<built, hostAlive, isConnected, call, idx, hconn>>

MultiUpdateRollback(p) ==
    /\ hostAlive /\ pc[p] = "rollback" /\ call[p].fn = "multiUpdate"
    /\ \/ /\ DbRollback(sconn[p])
          /\ log' = [log EXCEPT ![p] = Append(@, Stmt("ROLLBACK", TRUE))]
          /\ outcome' = [outcome EXCEPT ![p] = origErr[p]]
       \/ /\ UNCHANGED <<inTx, pending, table>>
          /\ log' = [log EXCEPT ![p] = Append(@, Stmt("ROLLBACK", FALSE))]
          /\ outcome' = [outcome EXCEPT ![p] = "RollbackError"]
    /\ Release(sconn[p])
    /\ sconn' = [sconn EXCEPT ![p] = None]
    /\ pc' = [pc EXCEPT ![p] = "done"]
    /\ UNCHANGED <<built, hostAlive, isConnected, call, idx, hconn, origErr>>

\* ------------------------------------------------------------------ Next
Next ==
    \/ \E p \in Booters : InitializeConnect(p)
    \/ \E p \in Booters : InitializeQuery(p)
    \/ \E p \in Callers : RunQueryConnect(p)
    \/ \E p \in Callers : RunQueryExec(p)
    \/ \E p \in Callers, keys \in KeyCounts : insertRow(p, keys)
    \/ \E p \in Callers, keys \in KeyCounts : deleteRows(p, keys)
    \/ \E p \in Callers, n \in 0..MaxCb, throws \in BOOLEAN : transaction(p, n, throws)
    \/ \E p \in Callers : TransactionConnect(p)
    \/ \E p \in Callers : TransactionBegin(p)
    \/ \E p \in Callers : TransactionCommit(p)
    \/ \E p \in Callers : TransactionRollback(p)
    \/ \E p \in Callers, len \in 0..MaxBatch : multiUpdate(p, len)
    \/ \E p \in Callers : MultiUpdateConnect(p)
    \/ \E p \in Callers : MultiUpdateBegin(p)
    \/ \E p \in Callers : MultiUpdateCommit(p)
    \/ \E p \in Callers : MultiUpdateRollback(p)

Spec == Init /\ [][Next]_vars

\* A pending pool.connect() settles: the pool hands over a connection, the
\* attempt to reach the database fails, or the connectionTimeoutMillis timer
\* fires.  Nothing is assumed about how long a statement runs.
FairSpec == Spec /\ \A p \in Callers : WF_vars(RunQueryConnect(p))

\* ====================================================== statement builders
\* A statement text is a sequence of tokens; a placeholder $n is the token
\* Ph(n).  A data / where mapping is the sequence of its entries in
\* Object.keys order (an object has no key twice).
ColNames == <<"a", "b", "c", "d">>
Cols == {ColNames[i] : i \in 1..MaxKeys}
Vals == 1..MaxNum
Kw(s)  == [kind |-> "kw",  text |-> s,   n |-> 0]
Col(k) == [kind |-> "col", text |-> k,   n |-> 0]
Ph(i)  == [kind |-> "ph",  text |-> "$", n |-> i]

Mappings ==
    UNION {{m \in [1..n -> [key : Cols, val : Vals]] :
               \A i, j \in 1..n : i # j => m[i].key # m[j].key} : n \in 0..MaxKeys}

ObjectKeys(m)   == [i \in 1..Len(m) |-> m[i].key]
ObjectValues(m) == [i \in 1..Len(m) |-> m[i].val]
Get(m, k)       == m[CHOOSE i \in 1..Len(m) : m[i].key = k].val

RECURSIVE Join(_, _)
\* Array.prototype.join over token groups
Join(parts, sep) ==
    IF Len(parts) = 0 THEN <<>>
    ELSE IF Len(parts) = 1 THEN parts[1]
    ELSE parts[1] \o <<sep>> \o Join(Tail(parts), sep)

\* Object.keys(m).map(key => `${key} = $${paramIndex++}`), paramIndex = first
Conditions(m, first) ==
    [i \in 1..Len(m) |-> <<Col(ObjectKeys(m)[i]), Kw("="), Ph(first + i - 1)>>]

\* Object.keys(where).map(key => { params.push(where[key]); ... })
Pushed(where) == [i \in 1..Len(where) |-> Get(where, ObjectKeys(where)[i])]

\* getAllRows: the query text and params handed to runQuery
getAllRowsQuery(where, orderBy, limit, offset) ==
    LET q0 == <<Kw("SELECT"), Col("*"), Kw("FROM"), Col("t")>>
        hasWhere == Len(ObjectKeys(where)) > 0
        q1 == IF hasWhere
              THEN q0 \o <<Kw("WHERE")>> \o Join(Conditions(where, 1), Kw("AND"))
              ELSE q0
        p1 == IF hasWhere THEN Pushed(where) ELSE <<>>
        i1 == IF hasWhere THEN 1 + Len(where) ELSE 1
        q2 == IF orderBy # "" THEN q1 \o <<Kw("ORDER BY"), Col(orderBy)>> ELSE q1
        q3 == IF limit # 0 THEN q2 \o <<Kw("LIMIT"), Ph(i1)>> ELSE q2
        p3 == IF limit # 0 THEN Append(p1, limit) ELSE p1
        i3 == IF limit # 0 THEN i1 + 1 ELSE i1
        q4 == IF offset # 0 THEN q3 \o <<Kw("OFFSET"), Ph(i3)>> ELSE q3
        p4 == IF offset # 0 THEN Append(p3, offset) ELSE p3
    IN  [text |-> q4, params |-> p4]

updateRowsQuery_WhereFromOne(data, where) ==
    LET q0 == <<Kw("UPDATE"), Col("t"), Kw("SET")>>
                 \o Join(Conditions(data, 1), Kw(","))
        hasWhere == Len(ObjectKeys(where)) > 0
        q1 == IF hasWhere
              THEN q0 \o <<Kw("WHERE")>> \o Join(Conditions(where, 1), Kw("AND"))
              ELSE q0
        p1 == IF hasWhere THEN ObjectValues(data) \o Pushed(where)
                          ELSE ObjectValues(data)
    IN  [text |-> q1 \o <<Kw("RETURNING"), Col("*")>>, params |-> p1]

\* updateRows: the query text and params handed to runQuery
updateRowsQuery(data, where) ==
    LET q0 == <<Kw("UPDATE"), Col("t"), Kw("SET")>>
                 \o Join(Conditions(data, 1), Kw(","))
        p0 == ObjectValues(data)
        i0 == 1 + Len(ObjectKeys(data))
        hasWhere == Len(ObjectKeys(where)) > 0
        q1 == IF hasWhere
              THEN q0 \o <<Kw("WHERE")>> \o Join(Conditions(where, i0), Kw("AND"))
              ELSE q0
        p1 == IF hasWhere THEN p0 \o Pushed(where) ELSE p0
    IN  [text |-> q1 \o <<Kw("RETURNING"), Col("*")>>, params |-> p1]

\* deleteRows (where not empty): the query text and params handed to runQuery
deleteRowsQuery(where) ==
    LET q0 == <<Kw("DELETE FROM"), Col("t")>>
        q1 == q0 \o <<Kw("WHERE")>> \o Join(Conditions(where, 1), Kw("AND"))
    IN  [text |-> q1 \o <<Kw("RETURNING"), Col("*")>>, params |-> Pushed(where)]

\* one call of getAllRows / updateRows / deleteRows, up to its runQuery call
\* (a behaviour of SqlSpec is one such call)
BuildSelect(where, orderBy, limit, offset) ==
    /\ built.fn = "none"
    /\ built' = [fn |-> "getAllRows", rows |-> <<>>, data |-> <<>>, where |-> where,
                 orderBy |-> orderBy, limit |-> limit, offset |-> offset,
                 text |-> getAllRowsQuery(where, orderBy, limit, offset).text,
                 params |-> getAllRowsQuery(where, orderBy, limit, offset).params]
    /\ UNCHANGED daoVars

BuildUpdate(data, where) ==
    /\ built.fn = "none"
    /\ built' = [fn |-> "updateRows", rows |-> <<>>, data |-> data, where |-> where,
                 orderBy |-> "", limit |-> 0, offset |-> 0,
                 text |-> updateRowsQuery(data, where).text,
                 params |-> updateRowsQuery(data, where).params]
    /\ UNCHANGED daoVars

BuildDelete(where) ==
    /\ built.fn = "none"
    /\ Len(ObjectKeys(where)) # 0
    /\ built' = [fn |-> "deleteRows", rows |-> <<>>, data |-> <<>>, where |-> where,
                 orderBy |-> "", limit |-> 0, offset |-> 0,
                 text |-> deleteRowsQuery(where).text,
                 params |-> deleteRowsQuery(where).params]
    /\ UNCHANGED daoVars

\* ---- multiInsert
\* data[key] of a row that has no such key
Undefined == 0
Lookup(m, k) == IF \E i \in 1..Len(m) : m[i].key = k THEN Get(m, k) ELSE Undefined

\* The rows handed to multiInsert: each row has any keys in any order, and the
\* value of row i under key k is CellValue(i, k), different for every cell.
ColIndex(k) == CHOOSE j \in 1..Len(ColNames) : ColNames[j] = k
CellValue(i, k) == (i - 1) * Len(ColNames) + ColIndex(k)
KeyLists ==
    UNION {{ks \in [1..n -> Cols] : \A i, j \in 1..n : i # j => ks[i] # ks[j]}
              : n \in 0..MaxKeys}
RowArrays ==
    {[i \in 1..Len(shape) |->
         [j \in 1..Len(shape[i]) |->
             [key |-> shape[i][j], val |-> CellValue(i, shape[i][j])]]]
       : shape \in UNION {[1..n -> KeyLists] : n \in 0..MaxRows}}

\* keys.map(() => `$${paramIndex++}`): one row's placeholder group
RowPlaceholders(keys, first) ==
    <<Kw("(")>> \o Join([j \in 1..Len(keys) |-> <<Ph(first + j - 1)>>], Kw(","))
               \o <<Kw(")")>>

RECURSIVE ForEachRow_OwnKeys(_, _, _)
ForEachRow_OwnKeys(dataArray, keys, acc) ==
    IF Len(dataArray) = 0 THEN acc
    ELSE ForEachRow_OwnKeys(Tail(dataArray), keys,
            [placeholders |-> Append(acc.placeholders,
                                     RowPlaceholders(keys, acc.paramIndex)),
             values |-> acc.values \o ObjectValues(Head(dataArray)),
             paramIndex |-> acc.paramIndex + Len(keys)])

RECURSIVE ForEachRow(_, _, _)
\* dataArray.forEach(data => { placeholders.push(..); keys.forEach(key =>
\* values.push(data[key])) })
ForEachRow(dataArray, keys, acc) ==
    IF Len(dataArray) = 0 THEN acc
    ELSE ForEachRow(Tail(dataArray), keys,
            [placeholders |-> Append(acc.placeholders,
                                     RowPlaceholders(keys, acc.paramIndex)),
             values |-> acc.values
                          \o [j \in 1..Len(keys) |-> Lookup(Head(dataArray), keys[j])],
             paramIndex |-> acc.paramIndex + Len(keys)])

\* multiInsert (dataArray not empty): the query text and values handed to runQuery
multiInsertQuery(dataArray) ==
    LET keys == ObjectKeys(dataArray[1])
        acc  == ForEachRow(dataArray, keys,
                           [placeholders |-> <<>>, values |-> <<>>, paramIndex |-> 1])
    IN  [text |-> <<Kw("INSERT INTO"), Col("t"), Kw("(")>>
                    \o Join([j \in 1..Len(keys) |-> <<Col(keys[j])>>], Kw(","))
                    \o <<Kw(")"), Kw("VALUES")>>
                    \o Join(acc.placeholders, Kw(","))
                    \o <<Kw("RETURNING"), Col("*")>>,
         params |-> acc.values]

\* one call of multiInsert, up to its throw or its runQuery call
BuildInsertMany(dataArray) ==
    /\ built.fn = "none"
    /\ built' = IF Len(dataArray) = 0
                THEN [NoStatement EXCEPT !.fn = "multiInsert: ValidationError"]
                ELSE [fn |-> "multiInsert", rows |-> dataArray, data |-> <<>>,
                      where |-> <<>>, orderBy |-> "", limit |-> 0, offset |-> 0,
                      text |-> multiInsertQuery(dataArray).text,
                      params |-> multiInsertQuery(dataArray).params]
    /\ UNCHANGED daoVars

SqlNext ==
    \/ /\ built.fn = "none"
       /\ \E where \in Mappings, orderBy \in {"", "a"}, limit \in 0..MaxNum,
             offset \in 0..MaxNum : BuildSelect(where, orderBy, limit, offset)
    \/ /\ built.fn = "none"
       /\ \E data \in Mappings, where \in Mappings : BuildUpdate(data, where)
    \/ /\ built.fn = "none"
       /\ \E where \in Mappings : BuildDelete(where)
    \/ /\ built.fn = "none"
       /\ \E dataArray \in RowArrays : BuildInsertMany(dataArray)

SqlSpec == Init /\ [][SqlNext]_vars

\* ================================================================ claims
Scopes == {"transaction", "multiUpdate"}
Settled(p) == pc[p] = "done"
Rejected(p) == Settled(p) /\ outcome[p] # "ok"
Issued(p, s) == {i \in 1..Len(log[p]) : log[p][i].stmt = s}
Succeeded(p, s) == {i \in Issued(p, s) : log[p][i].ok}
RolledBack(p) == Succeeded(p, "ROLLBACK") # {}
RollbackFailed(p) == Issued(p, "ROLLBACK") # {} /\ Succeeded(p, "ROLLBACK") = {}

\* C1: inside a transaction scope every statement of a CRUD helper the
\* callback invokes runs on the connection on which the scope issued BEGIN;
\* no helper acquires another connection from the pool.
C1_HelperOnScopeConnection ==
    \A p \in Callers :
        (call[p].fn = "transaction" /\ pc[p] = "hquery") => hconn[p] = sconn[p]

\* C2: when the callback throws after one successful insertRow made inside
\* the scope, then once transaction() has rejected (its ROLLBACK done) the
\* inserted row is not visible in the table and the caller observes the
\* callback's error.
C2_ThrowRollsBackInsert ==
    \A p \in Callers :
        ( /\ call[p].fn = "transaction" /\ call[p].throws
          /\ call[p].n = 1 /\ idx[p] = 1
          /\ Rejected(p) /\ RolledBack(p) )
        => (<<p, 0>> \notin table /\ outcome[p] = CallbackError)

\* C3: multiUpdate is all-or-nothing: when the update of item i fails, then
\* after multiUpdate has rejected (its ROLLBACK done) none of the updates of
\* items 0..i-1 remains applied to the table.
C3_BatchAllOrNothing ==
    \A p \in Callers :
        (call[p].fn = "multiUpdate" /\ Rejected(p) /\ RolledBack(p))
        => \A i \in 0..(idx[p] - 1) : <<p, i>> \notin table

\* C4 as stated: every transaction() call that acquired a connection has
\* issued exactly one of COMMIT / ROLLBACK on it when it returns, on every
\* path; never both and never neither.
C4_ExactlyOneIssued ==
    \A p \in Callers :
        (call[p].fn = "transaction" /\ Settled(p) /\ log[p] # <<>>)
        => Cardinality(Issued(p, "COMMIT") \cup Issued(p, "ROLLBACK")) = 1

\* C4 as amended: every transaction() call that acquired a connection has
\* issued COMMIT or ROLLBACK on it when it returns, each at most once and
\* never neither; both are issued exactly when COMMIT was issued and failed,
\* the ROLLBACK after the failed COMMIT; COMMIT is issued only after a
\* successful BEGIN and a callback that returned.
C4_TerminalStatement ==
    \A p \in Callers :
        (call[p].fn = "transaction" /\ Settled(p) /\ log[p] # <<>>)
        => /\ Cardinality(Issued(p, "COMMIT")) <= 1
           /\ Cardinality(Issued(p, "ROLLBACK")) <= 1
           /\ Issued(p, "COMMIT") \cup Issued(p, "ROLLBACK") # {}
           /\ (Issued(p, "COMMIT") # {} /\ Issued(p, "ROLLBACK") # {})
                <=> (Issued(p, "COMMIT") # {} /\ Succeeded(p, "COMMIT") = {})
           /\ \A i \in Issued(p, "COMMIT"), j \in Issued(p, "ROLLBACK") : i < j
           /\ Issued(p, "COMMIT") # {}
                => (log[p][1].ok /\ ~call[p].throws /\ idx[p] = call[p].n)

C4_Witness ==
    \E p \in Callers :
        /\ call[p].fn = "transaction" /\ Settled(p)
        /\ Issued(p, "COMMIT") # {} /\ Succeeded(p, "COMMIT") = {}
        /\ Issued(p, "ROLLBACK") # {}

\* C5: a connection held by a transaction scope (transaction or multiUpdate)
\* is never returned to the pool while its transaction is open: at every
\* release a COMMIT or a ROLLBACK has succeeded on it since its BEGIN, also
\* when the ROLLBACK statement itself fails.
C5_ReleasedOutsideTransaction ==
    /\ \A c \in Conns : owner[c] = Idle => ~inTx[c]
    /\ \A p \in Callers :
        (call[p].fn \in Scopes /\ Settled(p) /\ log[p] # <<>> /\ log[p][1].ok)
        => (Succeeded(p, "COMMIT") \cup Succeeded(p, "ROLLBACK")) # {}

\* C6: when the callback (or COMMIT) of a transaction scope fails and the
\* ROLLBACK that follows fails too, the caller receives the original error,
\* not the ROLLBACK error.
C6_OriginalErrorPropagates ==
    \A p \in Callers :
        ( /\ call[p].fn \in Scopes /\ Settled(p)
          /\ origErr[p] \notin {"none", "BeginError"}
          /\ RollbackFailed(p) )
        => outcome[p] = origErr[p]

\* C7: every connection a DAO operation acquires is released on every path:
\* a flow whose operation has finished holds no connection.
C7_NoConnectionLeft ==
    hostAlive =>
        \A c \in Conns :
            owner[c] # Idle => pc[owner[c]] \notin {"idle", "done", "listening"}

\* C8: deleteRows with an empty where mapping fails with a validation error
\* in the step that calls it, which leaves the pool and the table as they
\* were; the flow never acquires a connection nor issues a statement.
EmptyDelete(p) == call[p].fn = "deleteRows" /\ call[p].n = 0

C8_EmptyDeleteState ==
    \A p \in Callers :
        EmptyDelete(p)
        => /\ pc[p] = "done" /\ outcome[p] = "ValidationError"
           /\ hconn[p] = None
           /\ \A c \in Conns : owner[c] # p /\ <<p, 0>> \notin pending[c]
           /\ <<p, 0>> \notin table

C8_EmptyDeleteRejected ==
    /\ []C8_EmptyDeleteState
    /\ [][\A p \in Callers :
            (~EmptyDelete(p) /\ EmptyDelete(p)')
            => UNCHANGED <<owner, inTx, pending, table>>]_vars

C8_Witness ==
    \E p \in Callers :
        /\ EmptyDelete(p) /\ outcome[p] = "ValidationError"
        /\ table # {}

\* C9: a failure of initialize() at startup does not terminate the process,
\* neither in the module-load initializer nor in the server bootstrap.
C9_InitFailureNotFatal ==
    \A p \in Booters : (Settled(p) /\ outcome[p] # "ok") => hostAlive

\* C10: in every statement built by getAllRows, updateRows and deleteRows the
\* placeholders, read in text order, are $1..$n; n values are bound; the
\* N-th placeholder stands where the N-th bound value belongs (its column in
\* SET or WHERE, LIMIT, OFFSET); and the values are bound in the order SET,
\* WHERE (key order), LIMIT, OFFSET.
PhPositions(text) == {j \in 1..Len(text) : text[j].kind = "ph"}
PhRank(text, j) == Cardinality({i \in PhPositions(text) : i <= j})
ClauseOf(text, j) ==
    LET ks == {i \in 1..j : text[i] \in {Kw("SET"), Kw("WHERE")}}
    IN  text[CHOOSE i \in ks : \A i2 \in ks : i2 <= i].text
\* the value the statement text asks for at placeholder position j
Wanted(b, j) ==
    IF b.text[j - 1] = Kw("LIMIT") THEN b.limit
    ELSE IF b.text[j - 1] = Kw("OFFSET") THEN b.offset
    ELSE Get(IF ClauseOf(b.text, j) = "SET" THEN b.data ELSE b.where,
             b.text[j - 2].text)
InOrder(b) ==
    ObjectValues(b.data) \o ObjectValues(b.where)
        \o (IF b.limit # 0 THEN <<b.limit>> ELSE <<>>)
        \o (IF b.offset # 0 THEN <<b.offset>> ELSE <<>>)

C10_PlaceholdersMatchParams ==
    built.fn \in {"getAllRows", "updateRows", "deleteRows"} =>
        /\ \A j \in PhPositions(built.text) : built.text[j].n = PhRank(built.text, j)
        /\ Len(built.params) = Cardinality(PhPositions(built.text))
        /\ \A j \in PhPositions(built.text) :
               built.params[built.text[j].n] = Wanted(built, j)
        /\ built.params = InOrder(built)
        /\ Cardinality(PhPositions(built.text))
             = Len(built.data) + Len(built.where)
               + (IF built.limit # 0 THEN 1 ELSE 0) + (IF built.offset # 0 THEN 1 ELSE 0)

C10_Witness ==
    /\ built.fn = "updateRows"
    /\ Len(built.data) = 2 /\ Len(built.where) = 2
    /\ built.params[1] # built.params[3]
    /\ built.text[Len(built.text) - 2] = Ph(4)

\* C11: insertRow with an empty data mapping fails with a validation error
\* before any statement is sent: the flow acquires no connection and no
\* INSERT is issued.
C11_EmptyInsertRejected ==
    \A p \in Callers :
        EmptyInsert(p)
        => /\ pc[p] = "done" /\ outcome[p] = "ValidationError"
           /\ hconn[p] = None
           /\ \A c \in Conns : owner[c] # p

\* C12: a caller of the query executor that waits for a connection does not
\* wait for ever, also when the pool has one connection and another caller
\* holds it for a long query: it gets a connection or its call rejects, with
\* the acquire-timeout error when no connection is free, and that rejection
\* releases nothing and leaves the caller holding nothing.
Direct(p) == call[p].fn \in {"insertRow", "deleteRows"}
Exhausted == \A c \in Conns : owner[c] # Idle

C12_WaitingCallerSettles ==
    /\ \A p \in Callers :
          (Direct(p) /\ pc[p] = "hconnect") ~> (pc[p] \in {"hquery", "done"})
    /\ [][\A p \in Callers :
            (Direct(p) /\ pc[p] = "hconnect" /\ pc'[p] = "done")
            => /\ owner' = owner
               /\ hconn'[p] = None
               /\ outcome'[p] = IF Exhausted THEN "PoolTimeout" ELSE "PoolError"]_vars

C12_Witness ==
    \E p, q \in Callers :
        /\ p # q /\ Cardinality(Conns) = 1
        /\ Direct(q) /\ pc[q] = "hquery" /\ owner[hconn[q]] = q
        /\ Direct(p) /\ pc[p] = "done" /\ outcome[p] = "PoolTimeout"

\* C13: multiInsert builds one INSERT whose placeholders, read in text order,
\* are $1..$(n*k) for n rows and the k keys of rows[0]; n*k values are bound,
\* the value at position i*k+j (from 0) being row i's value under the j-th key
\* of rows[0] (data[key], undefined when the row has no such key); for every
\* non-empty array, also when rows differ in their keys.
C13_MultiInsertAligned ==
    built.fn = "multiInsert" =>
        LET n == Len(built.rows)
            keys == ObjectKeys(built.rows[1])
            k == Len(keys)
        IN  /\ n > 0
            /\ \A j \in PhPositions(built.text) :
                   built.text[j].n = PhRank(built.text, j)
            /\ Cardinality(PhPositions(built.text)) = n * k
            /\ Len(built.params) = n * k
            /\ \A i \in 0..(n - 1), j \in 0..(k - 1) :
                   built.params[i * k + j + 1] = Lookup(built.rows[i + 1], keys[j + 1])

C13_Witness ==
    /\ built.fn = "multiInsert"
    /\ Len(built.rows) = 2 /\ Len(built.rows[1]) = 2 /\ Len(built.rows[2]) = 1
    /\ Len(built.params) = 4
    /\ \E x \in 3..4 : built.params[x] = Undefined
    /\ \E x \in 3..4 : built.params[x] # Undefined

\* C14: while a helper statement of multiUpdate, or of a transaction's
\* callback, is executing, the call holds two connections, the scope's and
\* runQuery's own.  So when every connection of the pool is the scope
\* connection of some scope, no helper holds or gets one; and in a pool of one
\* connection a multiUpdate never executes an update: once it has begun, its
\* first updateRows ends by acquire timeout and the batch by ROLLBACK.
HelperRunning(p) == call[p].fn \in Scopes /\ pc[p] = "hquery"
AllHeldByScopes ==
    \A c \in Conns :
        \E p \in Callers : call[p].fn \in Scopes /\ sconn[p] = c /\ owner[c] = p

C14_ScopeHoldsTwoConnections ==
    /\ \A p \in Callers :
          HelperRunning(p)
          => /\ sconn[p] \in Conns /\ hconn[p] \in Conns /\ sconn[p] # hconn[p]
             /\ owner[sconn[p]] = p /\ owner[hconn[p]] = p
    /\ AllHeldByScopes => \A p \in Callers : hconn[p] = None /\ pc[p] # "hquery"
    /\ Cardinality(Conns) = 1 =>
          \A p \in Callers :
              call[p].fn = "multiUpdate"
              => /\ idx[p] = 0
                 /\ \A i \in 0..(MaxOps - 1) :
                        <<p, i>> \notin table /\ \A c \in Conns : <<p, i>> \notin pending[c]
                 /\ (Settled(p) /\ log[p] # <<>> /\ log[p][1].ok)
                       => /\ origErr[p] = "PoolTimeout"
                          /\ Len(log[p]) = 2 /\ log[p][2].stmt = "ROLLBACK"

C14_Witness ==
    \E p \in Callers :
        /\ Cardinality(Conns) = 1
        /\ call[p].fn = "multiUpdate" /\ call[p].n = MaxBatch /\ Settled(p)
        /\ log[p] = <<Stmt("BEGIN", TRUE), Stmt("ROLLBACK", TRUE)>>
        /\ outcome[p] = "PoolTimeout"

\* C15: transaction() resolves only after BEGIN, the callback and COMMIT have
\* succeeded, in that order; when it rejects after acquiring a connection, a
\* ROLLBACK was issued on the scope's connection before the rejection, and the
\* connection was released after that ROLLBACK attempt.
C15_ResolveAndRejectOrder ==
    \A p \in Callers :
        call[p].fn = "transaction"
        => /\ pc[p] = "commit"
                => (log[p] = <<Stmt("BEGIN", TRUE)>> /\ idx[p] = call[p].n
                    /\ ~call[p].throws /\ outcome[p] = "pending")
           /\ (Settled(p) /\ outcome[p] = "ok")
                => (log[p] = <<Stmt("BEGIN", TRUE), Stmt("COMMIT", TRUE)>>
                    /\ idx[p] = call[p].n /\ ~call[p].throws)
           /\ pc[p] = "rollback"
                => (outcome[p] = "pending" /\ sconn[p] \in Conns /\ owner[sconn[p]] = p)
           /\ (Settled(p) /\ outcome[p] # "ok" /\ log[p] # <<>>)
                => (log[p][Len(log[p])].stmt = "ROLLBACK"
                    /\ sconn[p] = None /\ \A c \in Conns : owner[c] # p)

C15_Witness ==
    \E p, q \in Callers :
        /\ call[p].fn = "transaction" /\ call[p].n > 0
        /\ Settled(p) /\ outcome[p] = "ok"
        /\ call[q].fn = "transaction" /\ Settled(q)
        /\ outcome[q] = "CommitError"
        /\ log[q] = <<Stmt("BEGIN", TRUE), Stmt("COMMIT", FALSE), Stmt("ROLLBACK", TRUE)>>
====
